---------------------------- MODULE Spec2Model ----------------------------
(***************************************************************************)
(* Model of NewtonOptimization.ipynb: func, funcDeriv, lossFunction,       *)
(* lossFunctionGradient and the loop of newtonMethod.                      *)
(*                                                                         *)
(* Numbers.  The notebook computes with float64.  The model computes with  *)
(* exact integers on the inputs where the sinusoid is exact: t is an       *)
(* integer, the amplitude A is an integer, and W and Z are whole numbers   *)
(* of quarter turns (the program's W is w * pi/2, its Z is z * pi/2), so   *)
(* that W*t + Z is a whole number of quarter turns and np.sin / np.cos     *)
(* are 0, 1 or -1.  A parameter vector <<a, w, z>> of the model is the     *)
(* program's array [a, w*pi/2, z*pi/2].                                    *)
(*                                                                         *)
(* np.linalg.inv.  The matrix grad . grad^T has rank <= 1, so it is never  *)
(* invertible.  LAPACK's LU factorisation raises LinAlgError when it meets *)
(* a pivot that is exactly zero.  That is certain when a component of grad *)
(* is zero (the matrix then has a zero row and column that stay exactly    *)
(* zero), in particular for the zero vector.  For any other gradient the   *)
(* outcome depends on rounding: either the zero pivot is met (LinAlgError) *)
(* or a matrix of rounding noise is returned; the notebook's recorded run  *)
(* (finite A, W, Z printed from params_initial = [1, 1, 1]) is of the      *)
(* second kind.  The model takes that outcome from invMemo, a function of  *)
(* the gradient that is fixed the first time a gradient is met: float64    *)
(* arithmetic is deterministic, its values are not computed here.          *)
(***************************************************************************)
EXTENDS Integers, Sequences, FiniteSets, TLC

(* ------------------------------ bounds -------------------------------- *)
\* longest t_data / y_data drawn
MaxLen == 2
\* largest max_iter drawn
MaxIter == 2

TVals == {0, 1}
YVals == {-1, 0, 1}
AVals == {1, 2}
WVals == {0, 1}
ZVals == {0, 1}
\* tol = 0 never converges; tol = 1 separates a zero step from every other
\* step of the model, as the default 1e-6 does; tol = 2 accepts short steps
TolVals == {0, 1, 2}
\* what inv(...).dot(grad).flatten() may be when the inversion does not raise
StepVals == {<<1, 0, 0>>, <<0, 1, 0>>, <<-1, 1, -1>>, <<-2, 0, 0>>}

SeqsUpTo(S, n) == UNION {[1..m -> S] : m \in 0..n}

VARIABLES t_data, y_data, params_initial, max_iter, tol,
          pc, params, k, grad, params_new, outcome, result,
          gradEvals, invCalls, trace, invMemo, callNo, first

inputs == <<t_data, y_data, max_iter, tol>>
vars == <<t_data, y_data, params_initial, max_iter, tol,
          pc, params, k, grad, params_new, outcome, result,
          gradEvals, invCalls, trace, invMemo, callNo, first>>

\* no array (a name not bound yet, or no value returned)
NoVec == <<>>
\* what a finished call is remembered by; NoCall before any call has finished
NoCall == [outcome |-> "none", result |-> NoVec, trace |-> <<>>, k |-> 0]

(* --------------------------- pure functions --------------------------- *)
\* np.sin and np.cos of q quarter turns
SinQ(q) == CASE q % 4 = 0 -> 0 [] q % 4 = 1 -> 1 [] q % 4 = 2 -> 0 [] OTHER -> -1
CosQ(q) == SinQ(q + 1)

\* func(t, params) = A * np.sin(W * t + Z), element-wise over t
func(t, p) == [i \in 1..Len(t) |-> p[1] * SinQ(p[2] * t[i] + p[3])]

\* funcDeriv(t, params): np.array([dA, dW, dZ]), a 3 x Len(t) array
funcDeriv(t, p) ==
  << [i \in 1..Len(t) |-> SinQ(p[2] * t[i] + p[3])],
     [i \in 1..Len(t) |-> p[1] * t[i] * CosQ(p[2] * t[i] + p[3])],
     [i \in 1..Len(t) |-> p[1] * CosQ(p[2] * t[i] + p[3])] >>

\* numpy broadcasting of two 1-d arrays of lengths n and m
Broadcastable(n, m) == n = m \/ n = 1 \/ m = 1
BroadcastLen(n, m) == IF n = 1 THEN m ELSE n
Pick(s, i) == IF Len(s) = 1 THEN s[1] ELSE s[i]

\* mutant of Residual: y_data + func(t_data, params)
ResidualSignSlip(y, t, p) ==
  [i \in 1..BroadcastLen(Len(y), Len(t)) |-> Pick(y, i) + Pick(func(t, p), i)]

\* y_data - func(t_data, params), defined when the shapes broadcast
Residual(y, t, p) ==
  [i \in 1..BroadcastLen(Len(y), Len(t)) |-> Pick(y, i) - Pick(func(t, p), i)]

RECURSIVE SumSeq(_)
SumSeq(s) == IF s = <<>> THEN 0 ELSE s[1] + SumSeq(Tail(s))

\* np.dot of a row with a vector of the same length
Dot(row, e) == SumSeq([i \in 1..Len(row) |-> row[i] * e[i]])

\* mutant of GradientRaises: any difference of the lengths raises (no broadcasting)
GradientRaisesOnAnyMismatch(y, t) == Len(y) # Len(t)

\* lossFunctionGradient raises ValueError: the subtraction does not broadcast,
\* or np.dot(deriv, error) finds deriv's columns and error's length to differ
GradientRaises(y, t) ==
  \/ ~Broadcastable(Len(y), Len(t))
  \/ BroadcastLen(Len(y), Len(t)) # Len(t)

\* lossFunctionGradient(params) = -2 * np.dot(deriv, error)
lossFunctionGradient(y, t, p) ==
  [j \in 1..3 |-> -2 * Dot(funcDeriv(t, p)[j], Residual(y, t, p))]

\* lossFunction(params) = np.sum((y_data - func(t_data, params)) ** 2) / len(y_data),
\* kept as numerator and denominator
lossNum(y, t, p) == SumSeq([i \in 1..Len(Residual(y, t, p)) |-> Residual(y, t, p)[i] * Residual(y, t, p)[i]])
lossDen(y) == Len(y)

(* ------------------------------ the loop ------------------------------ *)
\* mutants of LoopContinues: a body that runs at least once; one pass too many
LoopContinuesDoWhile(i, n) == i = 0 \/ i < n
LoopContinuesInclusive(i, n) == i <= n

\* for _ in range(max_iter): another iteration starts
LoopContinues(i, n) == i < n

\* mutant of InvCertainlySingular: an inversion that never has to raise (a
\* pseudo-inverse in place of inv)
InvNeverCertainlySingular(g) == FALSE

\* np.linalg.inv(np.dot(grad, grad.T)) certainly raises LinAlgError
InvCertainlySingular(g) == \E j \in 1..3 : g[j] = 0

\* inv returned no matrix: LinAlgError("Singular matrix") was raised
LinAlgError == <<>>

\* the outcomes of inv(...).dot(grad).flatten() for gradient g, given the
\* outcomes already fixed
InvOutcomes(g, memo) ==
  IF InvCertainlySingular(g) THEN {LinAlgError}
  ELSE IF g \in DOMAIN memo THEN {memo[g]}
  ELSE StepVals \cup {LinAlgError}

VecSub(a, b) == [j \in 1..3 |-> a[j] - b[j]]

\* np.linalg.norm(d) < tol, for d = [d1, d2*pi/2, d3*pi/2]:
\* 4*d1^2 + pi^2 * (d2^2 + d3^2) < 4*tol^2, with pi^2 = 9.8696...
NormBelow(d, eps) ==
  /\ eps > 0
  /\ (d[2] * d[2] + d[3] * d[3]) * 98696 < (4 * eps * eps - 4 * d[1] * d[1]) * 10000

\* the value newtonMethod returns after break
ReturnAfterBreak(p, pnew) == p

\* mutant of AssignedIterate: the assignment params = params_new is lost
AssignedIterateStale(p, pnew) == p

\* the iterate a non-converged iteration leaves in params (params = params_new)
AssignedIterate(p, pnew) == pnew

\* mutant of CallerArrayAfterAssign: the update is written into the caller's
\* array (params -= step on the alias params = params_initial)
CallerArrayWrittenInPlace(pinit, pnew) == pnew

\* the caller's array params_initial after params = params_new: the iterate is a
\* new array (params - ...), the name params is rebound, nothing is written
CallerArrayAfterAssign(pinit, pnew) == pinit

Init ==
  /\ t_data \in SeqsUpTo(TVals, MaxLen)
  /\ y_data \in SeqsUpTo(YVals, MaxLen)
  /\ params_initial \in AVals \X WVals \X ZVals
  /\ max_iter \in 0..MaxIter
  /\ tol \in TolVals
  /\ pc = "entry"
  /\ params = NoVec
  /\ k = 0
  /\ grad = NoVec
  /\ params_new = NoVec
  /\ outcome = "running"
  /\ result = NoVec
  /\ gradEvals = 0
  /\ invCalls = 0
  /\ trace = <<>>
  /\ invMemo = <<>>
  /\ callNo = 1
  /\ first = NoCall

\* params = params_initial
Enter ==
  /\ pc = "entry"
  /\ params' = params_initial
  /\ trace' = <<params_initial>>
  /\ pc' = "loop"
  /\ UNCHANGED <<inputs, params_initial, k, grad, params_new, outcome, result,
                 gradEvals, invCalls, invMemo, callNo, first>>

\* for _ in range(max_iter): ... ; return params
LoopHead ==
  /\ pc = "loop"
  /\ \/ /\ LoopContinues(k, max_iter)
        /\ k' = k + 1
        /\ pc' = "gradient"
        /\ UNCHANGED <<outcome, result>>
     \/ /\ ~LoopContinues(k, max_iter)
        /\ pc' = "done"
        /\ outcome' = "exhausted"
        /\ result' = params
        /\ UNCHANGED k
  /\ UNCHANGED <<inputs, params_initial, params, grad, params_new,
                 gradEvals, invCalls, trace, invMemo, callNo, first>>

\* grad = lossFunctionGradient(params); grad = grad.reshape(-1, 1)
EvalGradient ==
  /\ pc = "gradient"
  /\ gradEvals' = gradEvals + 1
  /\ \/ /\ GradientRaises(y_data, t_data)
        /\ pc' = "done"
        /\ outcome' = "shape_error"
        /\ UNCHANGED grad
     \/ /\ ~GradientRaises(y_data, t_data)
        /\ grad' = lossFunctionGradient(y_data, t_data, params)
        /\ pc' = "update"
        /\ UNCHANGED outcome
  /\ UNCHANGED <<inputs, params_initial, params, k, params_new, result,
                 invCalls, trace, invMemo, callNo, first>>

\* params_new = params - np.linalg.inv(np.dot(grad, grad.T)).dot(grad).flatten()
NewtonUpdate ==
  /\ pc = "update"
  /\ invCalls' = invCalls + 1
  /\ \E o \in InvOutcomes(grad, invMemo) :
       /\ invMemo' = IF InvCertainlySingular(grad) \/ grad \in DOMAIN invMemo
                     THEN invMemo ELSE invMemo @@ (grad :> o)
       /\ \/ /\ o = LinAlgError
             /\ pc' = "done"
             /\ outcome' = "singular"
             /\ UNCHANGED params_new
          \/ /\ o # LinAlgError
             /\ params_new' = VecSub(params, o)
             /\ pc' = "check"
             /\ UNCHANGED outcome
  /\ UNCHANGED <<inputs, params_initial, params, k, grad, result,
                 gradEvals, trace, callNo, first>>

\* if np.linalg.norm(params_new - params) < tol: break
\* params = params_new
ConvergenceCheck ==
  /\ pc = "check"
  /\ \/ /\ NormBelow(VecSub(params_new, params), tol)
        /\ pc' = "done"
        /\ outcome' = "converged"
        /\ result' = ReturnAfterBreak(params, params_new)
        /\ UNCHANGED <<params, trace, params_initial>>
     \/ /\ ~NormBelow(VecSub(params_new, params), tol)
        /\ params' = AssignedIterate(params, params_new)
        /\ params_initial' = CallerArrayAfterAssign(params_initial, params_new)
        /\ trace' = Append(trace, AssignedIterate(params, params_new))
        /\ pc' = "loop"
        /\ UNCHANGED <<outcome, result>>
  /\ UNCHANGED <<inputs, k, grad, params_new, gradEvals, invCalls, invMemo,
                 callNo, first>>

\* a second call newtonMethod(func, lossFunction, lossFunctionGradient,
\* params_initial, max_iter, tol) with the same globals, after the first returned
\* or raised
SecondCall ==
  /\ pc = "done"
  /\ callNo = 1
  /\ first' = [outcome |-> outcome, result |-> result, trace |-> trace, k |-> k]
  /\ callNo' = 2
  /\ pc' = "entry"
  /\ params' = NoVec
  /\ k' = 0
  /\ grad' = NoVec
  /\ params_new' = NoVec
  /\ outcome' = "running"
  /\ result' = NoVec
  /\ gradEvals' = 0
  /\ invCalls' = 0
  /\ trace' = <<>>
  /\ UNCHANGED <<inputs, params_initial, invMemo>>

Next == Enter \/ LoopHead \/ EvalGradient \/ NewtonUpdate \/ ConvergenceCheck

Spec == Init /\ [][Next]_vars

\* the call is one synchronous computation: each of its steps is taken
FairSpec == Init /\ [][Next]_vars /\ WF_vars(Next)

NextTwoCalls == Next \/ SecondCall

TwoCallSpec == Init /\ [][NextTwoCalls]_vars

(* ------------------------- the update, as a function ------------------ *)
\* one pass of the loop body from p under the inversion outcomes fixed so far:
\* p - inv(g . g^T) . g for g = lossFunctionGradient(p); NoVec where the pass
\* raises or its outcome has not been fixed
UpdateStep(p) ==
  IF p = NoVec \/ GradientRaises(y_data, t_data) THEN NoVec
  ELSE LET g == lossFunctionGradient(y_data, t_data, p)
       IN IF g \in DOMAIN invMemo /\ invMemo[g] # LinAlgError
          THEN VecSub(p, invMemo[g]) ELSE NoVec

RECURSIVE Iterate(_, _)
Iterate(p, j) == IF j = 0 THEN p ELSE Iterate(UpdateStep(p), j - 1)

(* ------------------------------- claims -------------------------------- *)
Done == pc = "done"

\* t_data and y_data have the same length
WellFormed == Len(t_data) = Len(y_data)

\* both arrays hold at least one sample
NonEmpty == Len(t_data) >= 1 /\ Len(y_data) >= 1

\* some component of the gradient is exactly zero (the zero vector included)
HasZeroComponent(g) == g[1] = 0 \/ g[2] = 0 \/ g[3] = 0

\* every residual y_i - func(t_i, params_initial) is 0
ExactFit == WellFormed /\ y_data = func(t_data, params_initial)

\* C1 (as stated): when the convergence check succeeds the call returns
\* params_new, the iterate just computed.
C1_ReturnsNewIterate ==
  (Done /\ outcome = "converged" /\ WellFormed) => result = params_new

\* C2: with max_iter = 0 the call returns params_initial unchanged, and no
\* gradient is evaluated, no inversion attempted, no error raised, whatever the
\* sample set.
C2_ZeroBudgetReturnsInitial ==
  max_iter = 0 =>
    /\ gradEvals = 0
    /\ invCalls = 0
    /\ outcome \in {"running", "exhausted"}
    /\ Done => (outcome = "exhausted" /\ result = params_initial)

C2_Witness ==
  Done /\ max_iter = 0 /\ result = params_initial /\ Len(t_data) # Len(y_data)

\* C3: a call that completes all max_iter >= 1 iterations (every one assigned
\* params = params_new: no break, no error) returns normally, and returns the
\* update step applied max_iter times to params_initial.
C3_ExhaustedReturnsLastIterate ==
  (Done /\ max_iter >= 1 /\ Len(trace) = max_iter + 1) =>
    /\ outcome = "exhausted"
    /\ result = Iterate(params_initial, max_iter)
    /\ result = trace[max_iter + 1]
    /\ gradEvals = max_iter

C3_Witness ==
  Done /\ max_iter >= 2 /\ Len(trace) = max_iter + 1 /\ outcome = "exhausted"

\* C4 (as stated): grad . grad^T is never invertible, so every iteration that
\* attempts the inversion ends the call with the singular-matrix error.
C4_EveryInversionRaises ==
  (invCalls > 0 /\ pc # "update" /\ WellFormed) => outcome = "singular"

\* C4 (amended): when np.linalg.inv reports the matrix singular, which it
\* certainly does when a component of the gradient is exactly zero (the zero
\* vector in particular), the call ends with the singular-matrix error in that
\* iteration: nothing is returned, no further gradient is evaluated, the
\* inversion is not tried again.
C4_SingularEndsCall ==
  /\ [](outcome = "singular" =>
          (Done /\ result = NoVec /\ gradEvals = k /\ invCalls = k /\ Len(trace) = k))
  /\ []((pc = "check" \/ (Done /\ k >= 1 /\ outcome \in {"converged", "exhausted"}))
          => ~HasZeroComponent(grad))
  /\ [][(pc = "update" /\ HasZeroComponent(grad)) =>
          (pc' = "done" /\ outcome' = "singular" /\ result' = NoVec
             /\ gradEvals' = gradEvals /\ invCalls' = invCalls + 1
             /\ params' = params /\ k' = k)]_vars

C4_Witness ==
  Done /\ outcome = "singular" /\ grad = <<0, 0, 0>> /\ Len(t_data) = 2

C6_EagerPrecondition ==
  (~WellFormed /\ NonEmpty) =>
    /\ k = 0
    /\ result = NoVec
    /\ Done => outcome = "shape_error"

\* C6 (amended): the lengths are not checked before iterating.  With
\* max_iter = 0 the call returns params_initial.  With max_iter >= 1 and
\* len(y_data) # 1 the first gradient evaluation raises the shape error, in
\* iteration 1, before any inversion, and nothing is returned.  With
\* len(y_data) = 1, y_data is broadcast and no shape error is raised.
C6_LengthsCheckedByFirstGradient ==
  ~WellFormed =>
    /\ (Done /\ max_iter = 0) => (outcome = "exhausted" /\ result = params_initial)
    /\ (Done /\ max_iter >= 1 /\ Len(y_data) # 1) =>
         (outcome = "shape_error" /\ k = 1 /\ gradEvals = 1 /\ invCalls = 0
            /\ result = NoVec)
    /\ Len(y_data) # 1 => pc \notin {"update", "check"}
    /\ Len(y_data) = 1 => outcome # "shape_error"

C6_Witness ==
  Done /\ ~WellFormed /\ max_iter >= 1 /\ Len(y_data) = 2 /\ Len(t_data) = 1
    /\ outcome = "shape_error"

\* C7: two calls with the same params_initial, sample set, max_iter and tol
\* take the same iterates and end alike (the same vector returned, or the same
\* error in the same iteration).
C7_Deterministic ==
  (callNo = 2 /\ Done) =>
    first = [outcome |-> outcome, result |-> result, trace |-> trace, k |-> k]

C7_Witness ==
  callNo = 2 /\ Done /\ Len(trace) >= 2 /\ result # NoVec

\* the sample set is y = A0 * sin(W0 * t + Z0) without noise, for some A0, W0, Z0
NoiseFree ==
  /\ WellFormed
  /\ NonEmpty
  /\ \E a0 \in -2..2, w0 \in 0..3, z0 \in 0..3 : y_data = func(t_data, <<a0, w0, z0>>)

\* C8 (as stated): on a noise-free sample set the call returns parameters whose
\* MSE is below the tolerance.
C8_NoiseFreeConverges ==
  (Done /\ NoiseFree /\ max_iter >= 1 /\ tol >= 1) =>
    /\ result # NoVec
    /\ lossNum(y_data, t_data, result) < tol * lossDen(y_data)

\* the gradient of lossFunction = (1/n) * sum (y_i - func(t_i, p))^2 by the
\* chain rule, times n: component j is sum_i 2 * e_i * (- funcDeriv[j][i])
MSEGradientTimesN(y, t, p) ==
  [j \in 1..3 |->
     SumSeq([i \in 1..Len(t) |-> 2 * Residual(y, t, p)[i] * (0 - funcDeriv(t, p)[j][i])])]

\* C9 (as stated): lossFunctionGradient(params) is the gradient of lossFunction
\* at params.
C9_GradientOfMSE ==
  (pc = "update" /\ WellFormed) =>
    \A j \in 1..3 : lossDen(y_data) * grad[j] = MSEGradientTimesN(y_data, t_data, params)[j]

\* C10 (as stated): a finished call ended converged, exhausted or with the
\* singular-matrix error, within max_iter gradient evaluations and inversions.
C10_ThreeOutcomes ==
  /\ gradEvals <= max_iter
  /\ invCalls <= max_iter
  /\ (Done /\ NonEmpty) => outcome \in {"converged", "exhausted", "singular"}

\* C10 (amended): every call terminates, in exactly one of four outcomes:
\* converged, budget exhausted, singular-matrix error, or the shape error of the
\* gradient evaluation on t_data and y_data of incompatible lengths; it evaluates
\* at most max_iter gradients and attempts at most max_iter inversions, and once
\* the convergence check succeeds no further gradient is evaluated.
C10_TerminatesInFourOutcomes ==
  /\ [](k <= max_iter /\ gradEvals <= k /\ invCalls <= gradEvals)
  /\ [](Done <=> outcome \in {"converged", "exhausted", "singular", "shape_error"})
  /\ [](~Done => outcome = "running")
  /\ [][outcome = "converged" => (gradEvals' = gradEvals /\ invCalls' = invCalls)]_vars
  /\ <>Done

C10_Witness ==
  Done /\ outcome = "converged" /\ k = 2 /\ gradEvals = 2 /\ invCalls = 2
====
